---- MODULE Spec2Model ----
(***************************************************************************)
(* Model of the Census trade API query tool: main() of                     *)
(* Census_API_Program.py and the functions of trade_api_functions.py it    *)
(* calls.  The operator's answers and the remote API's responses are the   *)
(* nondeterministic inputs; every program variable of main() and of        *)
(* make_call() is a variable of the model.                                 *)
(*                                                                         *)
(* Python values are represented as follows.                               *)
(*   - a str is a TLA+ string; None in a str-typed position is the string  *)
(*     "None" (no modelled code, key or abbreviation is spelled that way); *)
(*   - an optional list (code_list, cty_codes, ...) is NoneList or         *)
(*     List(seq);                                                          *)
(*   - a year held by main() is a record [type, val]: valid_year_input     *)
(*     returns a str, int() makes an int of it, and range() accepts only   *)
(*     ints;                                                               *)
(*   - a dict is a function from its keys to their values;                 *)
(*   - a DataFrame is the sequence of its rows; a row of a response is     *)
(*     <<n, k>>, the k-th data row of the n-th request issued.             *)
(***************************************************************************)
EXTENDS Integers, Sequences, FiniteSets, TLC

VARIABLES
    pc,             \* position of main(): which statement runs next
    error,          \* "none", or the exception that ended the program
    key,            \* main: key
    imp_exp,        \* main: imp_exp
    endpoint,       \* main: endpoint
    trade_type,     \* main: trade_type
    base_url,       \* main: base_url
    parameters,     \* main: parameters (the dict make_call mutates)
    code_list,      \* main: code_list
    cty_codes,      \* main: cty_codes
    dist_codes,     \* main: dist_codes
    port_codes,     \* main: port_codes
    state,          \* main: state
    commodity,      \* main: commodity
    start_year,     \* main: start_year
    end_year,       \* main: end_year
    entered,        \* the years the operator typed last
    code_list_mc,   \* make_call: its parameter code_list, rebound to [None]
    ci,             \* make_call: position of `for code in code_list`
    parameter_sets, \* make_call: parameter_sets of the current code
    pi,             \* make_call: position of `for ... in parameter_sets`
    all_data,       \* make_call: all_data
    data,           \* make_call: data, then main: data
    log,            \* the requests issued to the API so far, with their outcomes
    notice,         \* the last of these the program printed: "" (none), "goodbye",
                    \* "no data", "retrieved"
    save_dir,       \* main: save_dir
    files,          \* the CSV files written by save_data
    \* one call of get_country_code, get_dist_code or get_port_code
    rpc,            \* "idle", "running" or "returned"
    rkind,          \* which resolver runs: "country", "district" or "port"
    rtext,          \* the text the operator typed, as its stripped tokens
    rstack,         \* the frames of the resolver, the running one last
    rresult,        \* what the outermost call returned
    rmissed,        \* the tokens that matched no row so far
    \* one call of commodity_selection_codes
    cpc,            \* the question or statement the call is at
    cendpoint,      \* its parameter endpoint
    ccode_list,     \* code_list of the function that runs
    cerror,         \* "none", or the exception that ended the program
    canswers,       \* the operator's answers to its questions so far
    \* one call of clean_data on a table
    tpc,            \* "idle", "called" or "returned"
    ttag,           \* its parameter trade_type
    ttable,         \* its parameter data
    tresult         \* what it returned, or the exception it raised

mainvars == <<pc, error, key, imp_exp, endpoint, trade_type, base_url, parameters,
          code_list, cty_codes, dist_codes, port_codes, state, commodity,
          start_year, end_year, entered, code_list_mc, ci, parameter_sets, pi,
          all_data, data, log, notice, save_dir, files>>

rvars == <<rpc, rkind, rtext, rstack, rresult, rmissed>>

cvars == <<cpc, cendpoint, ccode_list, cerror, canswers>>

\* the variables of the functions modelled apart from main()
tvars == <<tpc, ttag, ttable, tresult>>

auxvars == <<rvars, cvars, tvars>>

\* all variables but those of the resolvers, but those of commodity
\* selection, and but those of clean_data
nonrvars == <<mainvars, cvars, tvars>>
noncvars == <<mainvars, rvars, tvars>>
nontvars == <<mainvars, rvars, cvars>>

vars == <<mainvars, auxvars>>

----------------------------------------------------------------------------
(* Bounds of the model *)

\* the operator's years are FirstYear .. FirstYear + YearSpan
FirstYear == 2020
YearSpan == 2
\* a 200 response carries 1 .. MaxRows data rows
MaxRows == 1
\* at most MaxRequests requests are issued in one run
MaxRequests == 4

Years == FirstYear .. (FirstYear + YearSpan)

----------------------------------------------------------------------------
(* Python values *)

None == "None"
NoneList == [isNone |-> TRUE, v |-> <<>>]
List(s) == [isNone |-> FALSE, v |-> s]

\* truth value of an optional list: None and [] are false
TruthyList(l) == ~l.isNone /\ Len(l.v) > 0
\* truth value of an optional str: None and '' are false
TruthyStr(s) == s # None /\ s # ""

IntVal(n) == [type |-> "int", val |-> n]
StrVal(n) == [type |-> "str", val |-> n]

\* d[k] = v on a dict
DictSet(d, k, v) == [x \in (DOMAIN d) \cup {k} |-> IF x = k THEN v ELSE d[x]]

\* the characters of a str, as `for st in state` yields them
Chars(s) ==
    CASE s = "CA" -> <<"C", "A">>
      [] s = "NY" -> <<"N", "Y">>
      [] s = "ZZ" -> <<"Z", "Z">>
      [] OTHER -> <<>>

----------------------------------------------------------------------------
(* Endpoint selection *)

determine_trade_type(ie, ep) ==
    IF ie = "imports" /\ ep = "hs" THEN "imp_hs"
    ELSE IF ie = "imports" /\ ep = "port" THEN "imp_port"
    ELSE IF ie = "exports" /\ ep = "hs" THEN "exp_hs"
    ELSE IF ie = "exports" /\ ep = "port" THEN "exp_port"
    ELSE IF ie = "imports" /\ ep = "state" THEN "imp_st"
    ELSE "exp_st"

\* determine_base_url with the exports/port branch answering the imports URL
determine_base_url_sharedPort(ie, ep) ==
    IF ie = "imports" /\ ep = "hs"
        THEN "https://api.census.gov/data/timeseries/intltrade/imports/hs"
    ELSE IF ep = "port"
        THEN "https://api.census.gov/data/timeseries/intltrade/imports/porths"
    ELSE IF ie = "exports" /\ ep = "hs"
        THEN "https://api.census.gov/data/timeseries/intltrade/exports/hs"
    ELSE IF ie = "imports" /\ ep = "state"
        THEN "https://api.census.gov/data/timeseries/intltrade/imports/statehs"
    ELSE "https://api.census.gov/data/timeseries/intltrade/exports/statehs"

determine_base_url(ie, ep) ==
    IF ie = "imports" /\ ep = "hs"
        THEN "https://api.census.gov/data/timeseries/intltrade/imports/hs"
    ELSE IF ie = "imports" /\ ep = "port"
        THEN "https://api.census.gov/data/timeseries/intltrade/imports/porths"
    ELSE IF ie = "exports" /\ ep = "hs"
        THEN "https://api.census.gov/data/timeseries/intltrade/exports/hs"
    ELSE IF ie = "exports" /\ ep = "port"
        THEN "https://api.census.gov/data/timeseries/intltrade/exports/porths"
    ELSE IF ie = "imports" /\ ep = "state"
        THEN "https://api.census.gov/data/timeseries/intltrade/imports/statehs"
    ELSE "https://api.census.gov/data/timeseries/intltrade/exports/statehs"

determine_base_params(tt) ==
    IF tt = "imp_hs" THEN
        [get |-> "I_COMMODITY,I_COMMODITY_LDESC,CTY_CODE,CTY_NAME,DISTRICT,DIST_NAME,UNIT_QY1,UNIT_QY2,GEN_VAL_YR,GEN_QY1_YR,GEN_QY1_YR_FLAG,GEN_QY2_YR,GEN_QY2_YR_FLAG,GEN_CHA_YR,GEN_CIF_YR,CC_YR,RP,CAL_DUT_YR,DUT_VAL_YR,CNT_CHA_YR,CNT_VAL_YR,CNT_WGT_YR,VES_WGT_YR,VES_VAL_YR,VES_CHA_YR,AIR_WGT_YR,AIR_VAL_YR,AIR_CHA_YR",
         SUMMARY_LVL |-> "DET"]
    ELSE IF tt = "imp_port" THEN
        [get |-> "I_COMMODITY,I_COMMODITY_LDESC,PORT,PORT_NAME,CTY_CODE,CTY_NAME,GEN_VAL_YR,CNT_VAL_YR,CNT_WGT_YR,VES_VAL_YR,VES_WGT_YR,AIR_VAL_YR,AIR_WGT_YR",
         SUMMARY_LVL |-> "DET"]
    ELSE IF tt = "exp_hs" THEN
        [get |-> "E_COMMODITY,E_COMMODITY_LDESC,DF,CTY_CODE,CTY_NAME,DISTRICT,DIST_NAME,UNIT_QY1,UNIT_QY2,ALL_VAL_YR,QTY_1_YR,QTY_1_YR_FLAG,QTY_2_YR,QTY_2_YR_FLAG,CNT_VAL_YR,CNT_WGT_YR,CC_YR,AIR_VAL_YR,AIR_WGT_YR,VES_VAL_YR,VES_WGT_YR",
         SUMMARY_LVL |-> "DET"]
    ELSE IF tt = "exp_port" THEN
        [get |-> "E_COMMODITY,E_COMMODITY_LDESC,PORT,PORT_NAME,CTY_CODE,CTY_NAME,ALL_VAL_YR,CNT_VAL_YR,CNT_WGT_YR,VES_VAL_YR,VES_WGT_YR,AIR_VAL_YR,AIR_WGT_YR",
         SUMMARY_LVL |-> "DET"]
    ELSE IF tt = "imp_st" THEN
        [get |-> "I_COMMODITY,I_COMMODITY_LDESC,STATE,CTY_NAME,CTY_CODE,GEN_VAL_YR,VES_VAL_YR,VES_WGT_YR,CNT_VAL_YR,CNT_WGT_YR,AIR_VAL_YR,AIR_WGT_YR",
         SUMMARY_LVL |-> "DET"]
    ELSE
        [get |-> "E_COMMODITY,E_COMMODITY_LDESC,STATE,CTY_NAME,CTY_CODE,ALL_VAL_YR,VES_VAL_YR,VES_WGT_YR,CNT_VAL_YR,CNT_WGT_YR,AIR_VAL_YR,AIR_WGT_YR",
         SUMMARY_LVL |-> "DET"]

----------------------------------------------------------------------------
\* main() before its first statement
MainInit ==
    /\ pc = "get_key"
    /\ error = "none"
    /\ key = None
    /\ imp_exp = None
    /\ endpoint = None
    /\ trade_type = None
    /\ base_url = None
    /\ parameters = [get |-> "", SUMMARY_LVL |-> ""]
    /\ code_list = NoneList
    /\ cty_codes = NoneList
    /\ dist_codes = NoneList
    /\ port_codes = NoneList
    /\ state = None
    /\ commodity = None
    /\ start_year = IntVal(0)
    /\ end_year = IntVal(0)
    /\ entered = [start |-> 0, end |-> 0]
    /\ code_list_mc = NoneList
    /\ ci = 0
    /\ parameter_sets = <<>>
    /\ pi = 0
    /\ all_data = <<>>
    /\ data = [kind |-> "None", rows |-> <<>>]
    /\ log = <<>>
    /\ notice = ""
    /\ save_dir = None
    /\ files = {}

\* no resolver call is running
ResolverIdle ==
    /\ rpc = "idle"
    /\ rkind = "country"
    /\ rtext = <<>>
    /\ rstack = <<>>
    /\ rresult = [isNone |-> TRUE, v |-> <<>>]
    /\ rmissed = {}

\* commodity_selection_codes is not running
CommodityIdle ==
    /\ cpc = "idle"
    /\ cendpoint = "hs"
    /\ ccode_list = [isNone |-> TRUE, v |-> <<>>]
    /\ cerror = "none"
    /\ canswers = <<>>

\* clean_data is not running
CleanIdle ==
    /\ tpc = "idle"
    /\ ttag = "imp_hs"
    /\ ttable = [cols |-> <<>>, rows |-> <<>>]
    /\ tresult = [error |-> "none", cleaned |-> [cols |-> <<>>, rows |-> <<>>],
                  raw |-> [cols |-> <<>>, rows |-> <<>>]]

Init == MainInit /\ ResolverIdle /\ CommodityIdle /\ CleanIdle

----------------------------------------------------------------------------
(* The operator's possible answers and the resolvers' possible results *)

\* a 40-character API key, the only length validate_api_key accepts
ApiKey == "0123456789abcdef0123456789abcdef01234567"

\* what commodity_selection_codes can return for a commodity name: no filter
\* (continue without), the empty list of a search without matches, or codes
CommodityResults ==
    {NoneList, List(<<>>), List(<<"8501">>), List(<<"8501", "8502*">>)}

\* what get_country_code can return: None after an exception, or its codes
CountryResults == {NoneList, List(<<"1220">>), List(<<"1220", "2010">>)}

\* what get_dist_code can return
DistrictResults == {NoneList, List(<<"10">>), List(<<"10", "20">>)}

\* what get_port_code can return
PortResults == {NoneList, List(<<"1001">>), List(<<"1001", "2002">>)}

\* the Abbreviation column of resources/states.csv (two of its rows)
StateAbbreviations == {"CA", "NY"}

\* what the operator can type at the state prompt, upper-cased ('' excluded)
StateEntries == {"CA", "ZZ"}

SaveDirs == {"saved_data", "out"}

----------------------------------------------------------------------------
(* main(), up to the request phase *)

\* get_key(): a valid key, no key, or the goodbye message and sys.exit() on
\* the operator's quit
GetKey ==
    /\ pc = "get_key"
    /\ \E k \in {None, ApiKey, "quit"} :
          IF k = "quit"
          THEN /\ pc' = "exited"
               /\ notice' = "goodbye"
               /\ key' = key
          ELSE /\ pc' = "select"
               /\ notice' = notice
               /\ key' = k
    /\ UNCHANGED auxvars
    /\ UNCHANGED <<error, imp_exp, endpoint, trade_type, base_url, parameters,
                   code_list, cty_codes, dist_codes, port_codes, state,
                   commodity, start_year, end_year, entered, code_list_mc, ci,
                   parameter_sets, pi, all_data, data, log, save_dir, files>>

\* get_imp_exp(), get_endpoint(), determine_*(), and the key added to parameters
SelectEndpoint ==
    /\ pc = "select"
    /\ \E ie \in {"imports", "exports"}, ep \in {"hs", "port", "state"} :
          /\ imp_exp' = ie
          /\ endpoint' = ep
          /\ trade_type' = determine_trade_type(ie, ep)
          /\ base_url' = determine_base_url(ie, ep)
          /\ parameters' =
                IF TruthyStr(key)
                THEN DictSet(determine_base_params(determine_trade_type(ie, ep)),
                             "key", key)
                ELSE determine_base_params(determine_trade_type(ie, ep))
    /\ pc' = "user_params"
    /\ UNCHANGED auxvars
    /\ UNCHANGED <<error, key, code_list, cty_codes, dist_codes, port_codes,
                   state, commodity, start_year, end_year, entered, code_list_mc, ci,
                   parameter_sets, pi, all_data, data, log, notice, save_dir,
                   files>>

\* get_user_defined_parameters(): the commodity, country and
\* district/port/state prompts, with the resolvers' results as inputs
get_user_defined_parameters(com, codes, ctys, dists, ports, st) ==
    /\ commodity' = com
    /\ code_list' = IF com = None THEN NoneList ELSE codes
    /\ cty_codes' = ctys
    /\ dist_codes' = IF endpoint = "hs" THEN dists ELSE NoneList
    /\ port_codes' = IF endpoint = "port" THEN ports ELSE NoneList
    /\ state' = IF endpoint = "state" THEN st ELSE None

GetUserDefinedParameters ==
    /\ pc = "user_params"
    /\ \E com \in {None, "motors"}, codes \in CommodityResults,
          ctys \in CountryResults, dists \in DistrictResults,
          ports \in PortResults, st \in {None} \cup StateEntries :
          /\ com = None => codes = NoneList
          /\ endpoint # "hs" => dists = NoneList
          /\ endpoint # "port" => ports = NoneList
          /\ endpoint # "state" => st = None
          /\ get_user_defined_parameters(com, codes, ctys, dists, ports, st)
    /\ pc' = "years"
    /\ UNCHANGED auxvars
    /\ UNCHANGED <<error, key, imp_exp, endpoint, trade_type, base_url,
                   parameters, start_year, end_year, entered, code_list_mc, ci,
                   parameter_sets, pi, all_data, data, log, notice, save_dir,
                   files>>

\* QuitAtCommodity with the goodbye message printed and the program going on
\* to the year prompts
QuitAtCommodity_goesOn ==
    /\ pc = "user_params"
    /\ notice' = "goodbye"
    /\ pc' = "years"
    /\ UNCHANGED auxvars
    /\ UNCHANGED <<error, key, imp_exp, endpoint, trade_type, base_url,
                   parameters, code_list, cty_codes, dist_codes, port_codes,
                   state, commodity, start_year, end_year, entered, code_list_mc, ci,
                   parameter_sets, pi, all_data, data, log, save_dir, files>>

\* commodity_selection_codes() prints the goodbye message and ends the
\* program with sys.exit() on 'quit'
QuitAtCommodity ==
    /\ pc = "user_params"
    /\ notice' = "goodbye"
    /\ pc' = "exited"
    /\ UNCHANGED auxvars
    /\ UNCHANGED <<error, key, imp_exp, endpoint, trade_type, base_url,
                   parameters, code_list, cty_codes, dist_codes, port_codes,
                   state, commodity, start_year, end_year, entered, code_list_mc, ci,
                   parameter_sets, pi, all_data, data, log, save_dir, files>>

\* the first two year prompts: both answers become ints, the end year + 1
EnterYears ==
    /\ pc = "years"
    /\ \E s \in Years, e \in Years :
          /\ start_year' = IntVal(s)
          /\ end_year' = IntVal(e + 1)
          /\ entered' = [start |-> s, end |-> e]
    /\ pc' = "check_years"
    /\ UNCHANGED auxvars
    /\ UNCHANGED <<code_list_mc, error, key, imp_exp, endpoint, trade_type,
                   base_url, parameters, code_list, cty_codes, dist_codes, port_codes,
                   state, commodity, ci, parameter_sets, pi, all_data, data,
                   log, notice, save_dir, files>>

\* the loop condition of main(): int(start_year) > int(end_year)
YearsRejected == start_year.val > end_year.val

\* the body of the while loop: both years asked again and kept as the strs
\* valid_year_input returns
RePromptYears ==
    /\ pc = "check_years"
    /\ YearsRejected
    /\ \E s \in Years, e \in Years :
          /\ start_year' = StrVal(s)
          /\ end_year' = StrVal(e)
          /\ entered' = [start |-> s, end |-> e]
    /\ UNCHANGED auxvars
    /\ UNCHANGED <<code_list_mc, pc, error, key, imp_exp, endpoint, trade_type,
                   base_url, parameters, code_list, cty_codes, dist_codes, port_codes,
                   state, commodity, ci, parameter_sets, pi, all_data, data,
                   log, notice, save_dir, files>>

----------------------------------------------------------------------------
(* make_call() *)

\* the HTTP status the code takes as success
StatusOK == 200
\* the statuses the API answers with
StatusCodes == {StatusOK, 500}

\* 'E_COMMODITY' if imp_exp == 'exports' else 'I_COMMODITY'
commodity_param == IF imp_exp = "exports" THEN "E_COMMODITY" ELSE "I_COMMODITY"

\* range(a, b) of two ints
Range(a, b) == [i \in 1 .. (IF b > a THEN b - a ELSE 0) |-> a + i - 1]

\* `x if x else [None]` for an optional list
OrNone(l) == IF TruthyList(l) THEN l.v ELSE <<None>>

\* `state if state else [None]`: a non-empty str is iterated by character
StateOrNone(s) == IF TruthyStr(s) THEN Chars(s) ELSE <<None>>

RECURSIVE Concat(_)
Concat(ss) == IF ss = <<>> THEN <<>> ELSE Head(ss) \o Concat(Tail(ss))

\* ParameterSets with the country loop outside the year loop
ParameterSets_ctyOutermost(years, ctys, dists, ports, sts) ==
    Concat([c \in 1 .. Len(ctys) |->
      Concat([y \in 1 .. Len(years) |->
        Concat([d \in 1 .. Len(dists) |->
          Concat([p \in 1 .. Len(ports) |->
            [s \in 1 .. Len(sts) |->
               [year |-> years[y], cty |-> ctys[c], dist |-> dists[d],
                port |-> ports[p], st |-> sts[s]]]])])])])

\* the list comprehension of make_call: year outermost, then cty, dist, port, st
ParameterSets(years, ctys, dists, ports, sts) ==
    Concat([y \in 1 .. Len(years) |->
      Concat([c \in 1 .. Len(ctys) |->
        Concat([d \in 1 .. Len(dists) |->
          Concat([p \in 1 .. Len(ports) |->
            [s \in 1 .. Len(sts) |->
               [year |-> years[y], cty |-> ctys[c], dist |-> dists[d],
                port |-> ports[p], st |-> sts[s]]]])])])])

\* TempParams without the `if cty:` ... `if st:` tests
TempParams_unconditional(params, ps) ==
    DictSet(DictSet(DictSet(DictSet(DictSet(params, "time", ps.year),
        "CTY_CODE", ps.cty), "DISTRICT", ps.dist), "PORT", ps.port),
        "STATE", ps.st)

\* temp_params: a copy of parameters with time and the truthy dimensions set
TempParams(params, ps) ==
    LET p1 == DictSet(params, "time", ps.year)
        p2 == IF TruthyStr(ps.cty) THEN DictSet(p1, "CTY_CODE", ps.cty) ELSE p1
        p3 == IF TruthyStr(ps.dist) THEN DictSet(p2, "DISTRICT", ps.dist) ELSE p2
        p4 == IF TruthyStr(ps.port) THEN DictSet(p3, "PORT", ps.port) ELSE p3
    IN  IF TruthyStr(ps.st) THEN DictSet(p4, "STATE", ps.st) ELSE p4

\* the rows of the body of the n-th request's response, k of them
ResponseRows(n, k) == [j \in 1 .. k |-> <<n, j>>]

\* Accumulate with the table replaced by the latest response's rows
Accumulate_latest(all, o, n) ==
    IF o.status = StatusOK THEN ResponseRows(n, o.n) ELSE all

\* pd.concat([all_data, df], ignore_index=True) on a 200 response; any other
\* response leaves all_data as it is
Accumulate(all, o, n) ==
    IF o.status = StatusOK THEN all \o ResponseRows(n, o.n) ELSE all

\* all_data.to_csv(index=False) then pd.read_csv(dtype=str): the rows, in order
CsvRoundTrip(rows) == [kind |-> "DataFrame", rows |-> rows]

NoData == [kind |-> "None", rows |-> <<>>]

\* main() enters make_call once the while loop's condition is false
MakeCallBegin ==
    /\ pc = "check_years"
    /\ ~YearsRejected
    /\ all_data' = <<>>
    /\ data' = NoData
    /\ code_list_mc' = IF code_list.isNone THEN List(<<None>>) ELSE code_list
    /\ ci' = 1
    /\ pc' = "code_loop"
    /\ UNCHANGED auxvars
    /\ UNCHANGED <<error, key, imp_exp, endpoint, trade_type, base_url,
                   parameters, code_list, cty_codes, dist_codes, port_codes,
                   state, commodity, start_year, end_year, entered,
                   parameter_sets, pi, log, notice, save_dir, files>>

\* the position after the i-1 first of the current code's parameter sets
AfterSets(sets, i) ==
    IF i > Len(sets) THEN [pc |-> "code_loop", ci |-> ci + 1]
    ELSE [pc |-> "request_loop", ci |-> ci]

\* one iteration of `for code in code_list`, up to its parameter_sets
NextCode ==
    /\ pc = "code_loop"
    /\ ci <= Len(code_list_mc.v)
    /\ LET code == code_list_mc.v[ci]
           params == IF code # None
                     THEN DictSet(parameters, commodity_param, code)
                     ELSE parameters
       IN /\ parameters' = params
          /\ IF start_year.type = "int" /\ end_year.type = "int"
             THEN LET sets == ParameterSets(
                                Range(start_year.val, end_year.val),
                                OrNone(cty_codes), OrNone(dist_codes),
                                OrNone(port_codes), StateOrNone(state))
                  IN /\ parameter_sets' = sets
                     /\ pi' = 1
                     /\ pc' = AfterSets(sets, 1).pc
                     /\ ci' = AfterSets(sets, 1).ci
                     /\ error' = error
             ELSE \* range() of a str raises TypeError
                  /\ pc' = "crashed"
                  /\ error' = "TypeError"
                  /\ UNCHANGED <<parameter_sets, pi, ci>>
    /\ UNCHANGED auxvars
    /\ UNCHANGED <<key, imp_exp, endpoint, trade_type, base_url, code_list,
                   cty_codes, dist_codes, port_codes, state, commodity,
                   start_year, end_year, entered, code_list_mc, all_data,
                   data, log, notice, save_dir, files>>

\* what a request can come to: a 200 response with data rows, another status
\* with a body make_call never reads, or an exception raised by req.get
\* (timeout, connection error)
Outcomes ==
    [raised : {FALSE}, status : {StatusOK}, n : 1 .. MaxRows]
    \cup [raised : {FALSE}, status : StatusCodes \ {StatusOK}, n : {1}]
    \cup [raised : {TRUE}, status : {0}, n : {0}]

\* the body of `for year, cty, dist, port, st in parameter_sets` on outcome o,
\* in a run of at most cap requests
IssueRequest(o, cap) ==
    /\ pc = "request_loop"
    /\ pi <= Len(parameter_sets)
    /\ Len(log) < cap
    /\ LET ps == parameter_sets[pi]
           temp_params == TempParams(parameters, ps)
           n == Len(log) + 1
       IN /\ log' = Append(log, [code |-> code_list_mc.v[ci], year |-> ps.year,
                                cty |-> ps.cty, dist |-> ps.dist,
                                port |-> ps.port, st |-> ps.st,
                                params |-> temp_params, raised |-> o.raised,
                                status |-> o.status,
                                rows |-> ResponseRows(n, o.n)])
          /\ IF o.raised
             THEN \* nothing in make_call or main catches the exception
                  /\ pc' = "crashed"
                  /\ error' = "RequestException"
                  /\ UNCHANGED <<all_data, data, pi, ci>>
             ELSE /\ all_data' = Accumulate(all_data, o, n)
                  /\ data' = IF o.status = StatusOK
                             THEN CsvRoundTrip(Accumulate(all_data, o, n))
                             ELSE data
                  /\ pi' = pi + 1
                  /\ pc' = AfterSets(parameter_sets, pi + 1).pc
                  /\ ci' = AfterSets(parameter_sets, pi + 1).ci
                  /\ error' = error
    /\ UNCHANGED auxvars
    /\ UNCHANGED <<key, imp_exp, endpoint, trade_type, base_url, parameters,
                   code_list, cty_codes, dist_codes, port_codes, state,
                   commodity, start_year, end_year, entered, code_list_mc,
                   parameter_sets, notice, save_dir, files>>

Request == \E o \in Outcomes : IssueRequest(o, MaxRequests)

\* `return data` once code_list is used up
MakeCallReturn ==
    /\ pc = "code_loop"
    /\ ci > Len(code_list_mc.v)
    /\ pc' = "report"
    /\ UNCHANGED auxvars
    /\ UNCHANGED <<error, key, imp_exp, endpoint, trade_type, base_url,
                   parameters, code_list, cty_codes, dist_codes, port_codes,
                   state, commodity, start_year, end_year, entered,
                   code_list_mc, ci, parameter_sets, pi, all_data, data, log,
                   notice, save_dir, files>>

----------------------------------------------------------------------------
(* main() after make_call: the notice, the save directory, cleaning, saving *)

\* `if data is None` of main(): the no-data notice or the success message
Report ==
    /\ pc = "report"
    /\ notice' = IF data.kind = "None" THEN "no data" ELSE "retrieved"
    /\ pc' = "save_directory"
    /\ UNCHANGED auxvars
    /\ UNCHANGED <<error, key, imp_exp, endpoint, trade_type, base_url,
                   parameters, code_list, cty_codes, dist_codes, port_codes,
                   state, commodity, start_year, end_year, entered, code_list_mc, ci,
                   parameter_sets, pi, all_data, data, log, save_dir, files>>

\* save_directory(): the operator's directory or the default 'saved_data'
SaveDirectory ==
    /\ pc = "save_directory"
    /\ \E d \in SaveDirs : save_dir' = d
    /\ pc' = "clean_prompt"
    /\ UNCHANGED auxvars
    /\ UNCHANGED <<error, key, imp_exp, endpoint, trade_type, base_url,
                   parameters, code_list, cty_codes, dist_codes, port_codes,
                   state, commodity, start_year, end_year, entered, code_list_mc, ci,
                   parameter_sets, pi, all_data, data, log, notice, files>>

\* YEAR of a row: its time is 'YYYY-MM' of the year its request asked for
RowYear(r) == log[r[1]].year

\* clean_data(data, trade_type): data.copy() raises on None; on a table the
\* result depends on the cells, which are below this model's rows: it returns
\* the pair (cleaned, raw) or raises KeyError on a column the cleaning dropped
clean_data(d, tt, ok) ==
    IF d.kind = "None" THEN [error |-> "AttributeError", value |-> d]
    ELSE IF ~ok THEN [error |-> "KeyError", value |-> d]
    ELSE [error |-> "none", value |-> [kind |-> "tuple", rows |-> d.rows]]

\* save_data(data, raw_data, trade_type, save_dir, commodity=None, ...,
\* cleaned=True), by its own parameter names
save_data(p_data, p_raw_data, p_trade_type, p_save_dir, p_commodity, p_cleaned) ==
    LET descriptor == IF TruthyStr(p_commodity) THEN p_commodity ELSE ""
        years == {RowYear(p_data.rows[i]) : i \in 1 .. Len(p_data.rows)}
    IN  IF p_data.kind # "DataFrame"
        THEN \* data['time'] on None or on a tuple
             [error |-> "TypeError", files |-> {}]
        ELSE IF p_cleaned
        THEN \* raw_data['YEAR'] = ... on the second positional argument
             [error |-> "TypeError", files |-> {}]
        ELSE IF years # {} /\ p_save_dir = None
        THEN \* os.path.exists(None)
             [error |-> "TypeError", files |-> {}]
        ELSE [error |-> "none",
              files |-> {[dir |-> p_save_dir, descriptor |-> descriptor,
                          tag |-> p_trade_type, year |-> y, kind |-> "raw",
                          rows |-> SelectSeq(p_data.rows,
                                             LAMBDA r : RowYear(r) = y)]
                         : y \in years}]

\* the clean-before-saving question and the two calls of save_data in main(),
\* with the arguments in the positions main() passes them
CleanAndSave ==
    /\ pc = "clean_prompt"
    /\ \E cleaned \in BOOLEAN, ok \in BOOLEAN :
          LET cleaned_data == clean_data(data, trade_type, ok)
              saved == IF cleaned
                       THEN save_data(cleaned_data.value, trade_type, save_dir,
                                      commodity, None, TRUE)
                       ELSE save_data(data, trade_type, save_dir, commodity,
                                      None, FALSE)
          IN  /\ ~cleaned => ok
              /\ IF cleaned /\ cleaned_data.error # "none"
                 THEN /\ pc' = "crashed"
                      /\ error' = cleaned_data.error
                      /\ files' = files
                 ELSE IF saved.error # "none"
                 THEN /\ pc' = "crashed"
                      /\ error' = saved.error
                      /\ files' = files
                 ELSE /\ pc' = "done"
                      /\ error' = error
                      /\ files' = files \cup saved.files
    /\ UNCHANGED auxvars
    /\ UNCHANGED <<key, imp_exp, endpoint, trade_type, base_url, parameters,
                   code_list, cty_codes, dist_codes, port_codes, state,
                   commodity, start_year, end_year, entered, code_list_mc, ci,
                   parameter_sets, pi, all_data, data, log, notice, save_dir>>

Next ==
    \/ GetKey
    \/ SelectEndpoint
    \/ GetUserDefinedParameters
    \/ QuitAtCommodity
    \/ EnterYears
    \/ RePromptYears
    \/ MakeCallBegin
    \/ NextCode
    \/ Request
    \/ MakeCallReturn
    \/ Report
    \/ SaveDirectory
    \/ CleanAndSave

Spec == Init /\ [][Next]_vars

----------------------------------------------------------------------------
(* The request plan alone: the same program against an API whose answers   *)
(* are fixed (odd requests succeed with one row, even ones fail), so that  *)
(* plans of up to MaxPlanRequests requests are walked through in full.     *)

MaxPlanRequests == 16

PlanOutcome(n) ==
    IF n % 2 = 1 THEN [raised |-> FALSE, status |-> StatusOK, n |-> 1]
    ELSE [raised |-> FALSE, status |-> 500, n |-> 1]

PlanRequest == IssueRequest(PlanOutcome(Len(log) + 1), MaxPlanRequests)

PlanNext ==
    \/ GetKey
    \/ SelectEndpoint
    \/ GetUserDefinedParameters
    \/ QuitAtCommodity
    \/ EnterYears
    \/ RePromptYears
    \/ MakeCallBegin
    \/ NextCode
    \/ PlanRequest
    \/ MakeCallReturn

SpecPlan == Init /\ [][PlanNext]_vars

----------------------------------------------------------------------------
(* Vocabulary of the properties *)

\* the axis values a request was issued for
Combo(e) == <<e.code, e.year, e.cty, e.dist, e.port, e.st>>

\* max(n, 1) of an optional list's length
LenOr1(l) == IF l.isNone \/ Len(l.v) = 0 THEN 1 ELSE Len(l.v)

\* the years the operator asked for, both ends included
EnteredYears == entered.start .. entered.end

\* the years requests were issued for
IssuedYears == {log[i].year : i \in 1 .. Len(log)}

\* the district, port or state codes the operator selected, by endpoint
SelectedAxisCount ==
    IF endpoint = "hs" THEN LenOr1(dist_codes)
    ELSE IF endpoint = "port" THEN LenOr1(port_codes)
    ELSE 1

\* some request was answered with status 200
SomeOK == \E i \in 1 .. Len(log) : ~log[i].raised /\ log[i].status = StatusOK

----------------------------------------------------------------------------
(* C1: for N years, C commodity codes (or none), K country codes (or none) *)
(* and D district/port/state codes (or none), make_call issues exactly     *)
(* N x max(C,1) x max(K,1) x max(D,1) requests, no two of them for the     *)
(* same combination of axis values.                                        *)
C1_RequestCount ==
    pc = "report" =>
        /\ Len(log) = Cardinality(EnteredYears) * LenOr1(code_list)
                        * LenOr1(cty_codes) * SelectedAxisCount
        /\ \A i, j \in 1 .. Len(log) : i # j => Combo(log[i]) # Combo(log[j])

----------------------------------------------------------------------------
\* the requests make_call plans: for each code, each parameter set, in order
PlannedCombos ==
    Concat([c \in 1 .. Len(code_list_mc.v) |->
      LET sets == ParameterSets(Range(start_year.val, end_year.val),
                                OrNone(cty_codes), OrNone(dist_codes),
                                OrNone(port_codes), StateOrNone(state))
      IN  [k \in 1 .. Len(sets) |->
             <<code_list_mc.v[c], sets[k].year, sets[k].cty, sets[k].dist,
               sets[k].port, sets[k].st>>]])

\* the rows of the responses that returned 200, in the order of the requests
RowsOfOK ==
    Concat([i \in 1 .. Len(log) |->
              IF log[i].status = StatusOK THEN log[i].rows ELSE <<>>])

(* C2: whatever statuses the planned requests are answered with, each      *)
(* planned request is issued exactly once, in plan order, and the table    *)
(* make_call returns holds exactly the rows of the responses that returned *)
(* 200, in plan order (no table at all, None, when none returned 200).     *)
C2_PartialFailure ==
    pc = "report" =>
        /\ [i \in 1 .. Len(log) |-> Combo(log[i])] = PlannedCombos
        /\ data.rows = RowsOfOK
        /\ (data.kind = "None") <=> ~SomeOK

\* make_call has returned from a plan of three requests or more in which a
\* failed request came before a successful one and two requests succeeded
C2_Witness ==
    /\ pc = "report"
    /\ Len(log) >= 3
    /\ \E i, j, k \in 1 .. Len(log) :
          /\ i < j
          /\ log[i].status # StatusOK
          /\ log[j].status = StatusOK
          /\ k # j
          /\ log[k].status = StatusOK

(* C3: an exception raised by a request (timeout, connection error) is     *)
(* caught and treated as a failed request: it does not end the program.    *)
C3_ExceptionCaught ==
    \A i \in 1 .. Len(log) : log[i].raised => pc # "crashed"

(* C4: when no request returned 200, make_call returns None, main prints   *)
(* the no-data notice and goes on through the save step to a normal end,   *)
(* whatever the answer to the clean-before-saving question.                *)
C4_NoDataTerminates ==
    LET noneOK == Len(log) > 0 /\ ~SomeOK
    IN  /\ (pc = "report" /\ noneOK) => data.kind = "None"
        /\ (pc \in {"save_directory", "clean_prompt", "done"} /\ noneOK)
              => notice = "no data"
        /\ (notice = "no data" /\ noneOK) => pc # "crashed"

----------------------------------------------------------------------------
\* make_call is running its loops
InRequestPhase == pc \in {"code_loop", "request_loop"}

(* C5: a start year greater than the end year is always rejected and both  *)
(* years asked again: the request phase is never entered while the start   *)
(* year the operator gave is greater than the end year, so never with an   *)
(* empty set of years.                                                     *)
C5_StartNotAfterEnd ==
    InRequestPhase => entered.start <= entered.end

\* the request phase is over: make_call returned, or range() ended it
RequestPhaseOver ==
    \/ pc = "report"
    \/ pc = "crashed" /\ error = "TypeError" /\ notice = ""

(* C6: the years requests are issued for are exactly the years from the    *)
(* accepted start year to the accepted end year, both included, also when  *)
(* the years were entered again after a rejection (stated for the runs     *)
(* with a commodity code list that is not empty).                          *)
C6_InclusiveYears ==
    (RequestPhaseOver /\ code_list # List(<<>>)) => IssuedYears = EnteredYears

\* the keys a request for the combination of e has to carry
C7_Keys(e) ==
    {"get", "SUMMARY_LVL", "time"}
    \cup (IF key # None THEN {"key"} ELSE {})
    \cup (IF e.code # None
          THEN {IF imp_exp = "exports" THEN "E_COMMODITY" ELSE "I_COMMODITY"}
          ELSE {})
    \cup (IF e.cty # None THEN {"CTY_CODE"} ELSE {})
    \cup (IF e.dist # None THEN {"DISTRICT"} ELSE {})
    \cup (IF e.port # None THEN {"PORT"} ELSE {})
    \cup (IF e.st # None THEN {"STATE"} ELSE {})

(* C7: every request carries the base parameters (get, SUMMARY_LVL, and    *)
(* key when there is one), time set to its year, and a key for exactly the *)
(* dimensions its combination populates, with the combination's values: no *)
(* key for an unset dimension, no value left over from an earlier request. *)
C7_ExactParameters ==
    \A i \in 1 .. Len(log) :
        LET e == log[i]
            p == e.params
        IN  /\ DOMAIN p = C7_Keys(e)
            /\ p["get"] = determine_base_params(trade_type)["get"]
            /\ p["SUMMARY_LVL"] = "DET"
            /\ key # None => p["key"] = key
            /\ p["time"] = e.year
            /\ e.code # None =>
                  p[IF imp_exp = "exports" THEN "E_COMMODITY"
                    ELSE "I_COMMODITY"] = e.code
            /\ e.cty # None => p["CTY_CODE"] = e.cty
            /\ e.dist # None => p["DISTRICT"] = e.dist
            /\ e.port # None => p["PORT"] = e.port
            /\ e.st # None => p["STATE"] = e.st

\* with an API key, requests for two commodity codes were issued, the later
\* one with a country selected and no district
C7_Witness ==
    /\ key = ApiKey
    /\ endpoint = "hs"
    /\ \E i, j \in 1 .. Len(log) :
          /\ i < j
          /\ log[i].code # None
          /\ log[j].code # None
          /\ log[i].code # log[j].code
          /\ log[j].cty # None
          /\ log[j].dist = None

\* a selection resolved to the empty list
EmptySelection ==
    \E l \in {code_list, cty_codes, dist_codes, port_codes} :
        ~l.isNone /\ l.v = <<>>

(* C8: a dimension whose code list is empty counts as unset, on the        *)
(* commodity, country and district/port/state axes alike: requests are     *)
(* still issued for every year.                                            *)
C8_EmptyListIsNoFilter ==
    (pc = "report" /\ EmptySelection) => EnteredYears \subseteq IssuedYears

(* C9: on the state endpoint every STATE value sent is exactly 2           *)
(* characters long and is a valid state abbreviation the operator entered. *)
C9_StateTwoChars ==
    \A i \in 1 .. Len(log) :
        "STATE" \in DOMAIN log[i].params =>
            /\ Len(log[i].params["STATE"]) = 2
            /\ log[i].params["STATE"] \in StateAbbreviations
            /\ log[i].params["STATE"] = state

\* the district, port or state values make_call iterates, by endpoint
AxisValues ==
    IF endpoint = "hs" THEN OrNone(dist_codes)
    ELSE IF endpoint = "port" THEN OrNone(port_codes)
    ELSE StateOrNone(state)

\* the combination at position g (from 0) of the order that nests, outer to
\* inner, commodity code, year, country, district/port/state
ExpectedCombo(g) ==
    LET codes == code_list_mc.v
        N == end_year.val - start_year.val
        ctys == OrNone(cty_codes)
        K == Len(ctys)
        D == Len(AxisValues)
        d == AxisValues[(g % D) + 1]
    IN  << codes[(g \div (N * K * D)) + 1],
           start_year.val + ((g \div (K * D)) % N),
           ctys[((g \div D) % K) + 1],
           IF endpoint = "hs" THEN d ELSE None,
           IF endpoint = "port" THEN d ELSE None,
           IF endpoint = "state" THEN d ELSE None >>

(* C10: requests are issued in the order fixed by the inputs that nests,   *)
(* outer to inner, commodity code, year, country code, district/port/state *)
(* code.                                                                   *)
C10_EmissionOrder ==
    \A i \in 1 .. Len(log) : Combo(log[i]) = ExpectedCombo(i - 1)

\* requests were issued that differ in each of the four axes
C10_Witness ==
    /\ \E i, j \in 1 .. Len(log) : log[i].code # log[j].code
    /\ \E i, j \in 1 .. Len(log) : log[i].year # log[j].year
    /\ \E i, j \in 1 .. Len(log) : log[i].cty # log[j].cty
    /\ \E i, j \in 1 .. Len(log) :
          <<log[i].dist, log[i].port, log[i].st>>
              # <<log[j].dist, log[j].port, log[j].st>>

----------------------------------------------------------------------------
(* Endpoint selection, read by direction and endpoint kind *)

Directions == {"imports", "exports"}
EndpointKinds == {"hs", "port", "state"}
Pairs == Directions \X EndpointKinds

\* the part of a tag, and the last segment of a URL, that names the kind
TagPrefix(ie) == IF ie = "imports" THEN "imp" ELSE "exp"
TagSuffix(ep) == IF ep = "hs" THEN "hs" ELSE IF ep = "port" THEN "port" ELSE "st"
UrlSegment(ep) ==
    IF ep = "hs" THEN "hs" ELSE IF ep = "port" THEN "porths" ELSE "statehs"

\* the field that carries the commodity code, and the one that carries the
\* district, port or state, in the field list of a pair
CommodityField(ie) == IF ie = "imports" THEN "I_COMMODITY" ELSE "E_COMMODITY"
GeographyField(ep) ==
    IF ep = "hs" THEN "DISTRICT" ELSE IF ep = "port" THEN "PORT" ELSE "STATE"

\* the 'get' value of a tag as the list of field names the API reads in it
FieldList(tt) ==
    IF tt = "imp_hs" THEN
        <<"I_COMMODITY", "I_COMMODITY_LDESC", "CTY_CODE", "CTY_NAME",
          "DISTRICT", "DIST_NAME", "UNIT_QY1", "UNIT_QY2", "GEN_VAL_YR",
          "GEN_QY1_YR", "GEN_QY1_YR_FLAG", "GEN_QY2_YR", "GEN_QY2_YR_FLAG",
          "GEN_CHA_YR", "GEN_CIF_YR", "CC_YR", "RP", "CAL_DUT_YR",
          "DUT_VAL_YR", "CNT_CHA_YR", "CNT_VAL_YR", "CNT_WGT_YR",
          "VES_WGT_YR", "VES_VAL_YR", "VES_CHA_YR", "AIR_WGT_YR",
          "AIR_VAL_YR", "AIR_CHA_YR">>
    ELSE IF tt = "imp_port" THEN
        <<"I_COMMODITY", "I_COMMODITY_LDESC", "PORT", "PORT_NAME", "CTY_CODE",
          "CTY_NAME", "GEN_VAL_YR", "CNT_VAL_YR", "CNT_WGT_YR", "VES_VAL_YR",
          "VES_WGT_YR", "AIR_VAL_YR", "AIR_WGT_YR">>
    ELSE IF tt = "exp_hs" THEN
        <<"E_COMMODITY", "E_COMMODITY_LDESC", "DF", "CTY_CODE", "CTY_NAME",
          "DISTRICT", "DIST_NAME", "UNIT_QY1", "UNIT_QY2", "ALL_VAL_YR",
          "QTY_1_YR", "QTY_1_YR_FLAG", "QTY_2_YR", "QTY_2_YR_FLAG",
          "CNT_VAL_YR", "CNT_WGT_YR", "CC_YR", "AIR_VAL_YR", "AIR_WGT_YR",
          "VES_VAL_YR", "VES_WGT_YR">>
    ELSE IF tt = "exp_port" THEN
        <<"E_COMMODITY", "E_COMMODITY_LDESC", "PORT", "PORT_NAME", "CTY_CODE",
          "CTY_NAME", "ALL_VAL_YR", "CNT_VAL_YR", "CNT_WGT_YR", "VES_VAL_YR",
          "VES_WGT_YR", "AIR_VAL_YR", "AIR_WGT_YR">>
    ELSE IF tt = "imp_st" THEN
        <<"I_COMMODITY", "I_COMMODITY_LDESC", "STATE", "CTY_NAME", "CTY_CODE",
          "GEN_VAL_YR", "VES_VAL_YR", "VES_WGT_YR", "CNT_VAL_YR", "CNT_WGT_YR",
          "AIR_VAL_YR", "AIR_WGT_YR">>
    ELSE
        <<"E_COMMODITY", "E_COMMODITY_LDESC", "STATE", "CTY_NAME", "CTY_CODE",
          "ALL_VAL_YR", "VES_VAL_YR", "VES_WGT_YR", "CNT_VAL_YR", "CNT_WGT_YR",
          "AIR_VAL_YR", "AIR_WGT_YR">>

\* ','.join(fields)
RECURSIVE JoinComma(_)
JoinComma(fields) ==
    IF fields = <<>> THEN ""
    ELSE IF Len(fields) = 1 THEN fields[1]
    ELSE fields[1] \o "," \o JoinComma(Tail(fields))

\* the members of a sequence
Members(q) == {q[i] : i \in 1 .. Len(q)}

\* tag, URL and field list of the pair (ie, ep) name ie and ep
PairAgrees(ie, ep) ==
    LET tt == determine_trade_type(ie, ep)
        fields == FieldList(tt)
    IN  /\ tt = TagPrefix(ie) \o "_" \o TagSuffix(ep)
        /\ determine_base_url(ie, ep) =
              "https://api.census.gov/data/timeseries/intltrade/"
                  \o ie \o "/" \o UrlSegment(ep)
        /\ determine_base_params(tt)["get"] = JoinComma(fields)
        /\ fields # <<>>
        /\ CommodityField(ie) \in Members(fields)
        /\ CommodityField(IF ie = "imports" THEN "exports" ELSE "imports")
              \notin Members(fields)
        /\ \A k \in EndpointKinds :
              GeographyField(k) \in Members(fields) <=> k = ep

(* C11: each of the six (direction, endpoint kind) pairs yields a tag, a   *)
(* base URL and a non-empty field list; different pairs yield different    *)
(* tags and different URLs; tag, URL and field list of a pair name the     *)
(* pair's direction and kind, imports pairs with the I_COMMODITY field and *)
(* exports pairs with E_COMMODITY, which is the key make_call sends a      *)
(* commodity code under; main() holds the values of the pair it selected.  *)
C11_EndpointMapping ==
    /\ \A a \in Pairs : PairAgrees(a[1], a[2])
    /\ \A a, b \in Pairs :
          a # b => /\ determine_trade_type(a[1], a[2])
                        # determine_trade_type(b[1], b[2])
                   /\ determine_base_url(a[1], a[2])
                        # determine_base_url(b[1], b[2])
    /\ pc \notin {"get_key", "select", "exited"} =>
          /\ trade_type = determine_trade_type(imp_exp, endpoint)
          /\ base_url = determine_base_url(imp_exp, endpoint)
          /\ parameters["get"] = JoinComma(FieldList(trade_type))
    /\ \A i \in 1 .. Len(log) :
          log[i].code # None =>
              /\ CommodityField(imp_exp) \in DOMAIN log[i].params
              /\ log[i].params[CommodityField(imp_exp)] = log[i].code

\* requests with a commodity code were issued on the exports state endpoint
C11_Witness ==
    /\ imp_exp = "exports"
    /\ endpoint = "state"
    /\ trade_type = "exp_st"
    /\ \E i \in 1 .. Len(log) : log[i].code # None

----------------------------------------------------------------------------
(* C12: once the operator has chosen to quit, at the API-key questions or  *)
(* at the commodity questions, the program has ended: no request has been  *)
(* or is issued and no file has been or is written.                        *)
C12_QuitTerminates ==
    notice = "goodbye" =>
        /\ pc = "exited"
        /\ error = "none"
        /\ log = <<>>
        /\ files = {}

\* the operator quit at the commodity questions, after the endpoint was chosen
C12_Witness ==
    /\ notice = "goodbye"
    /\ pc = "exited"
    /\ endpoint # None

----------------------------------------------------------------------------
(* get_country_code(), get_dist_code(), get_port_code(): one call by       *)
(* get_user_defined_parameters with the text the operator typed, and the   *)
(* calls the function makes of itself.  The three functions differ in the  *)
(* file they read, in the column they take codes from, and in what they    *)
(* return when the operator accepts the codes listed.                      *)

\* the depth of calls at which Python raises RecursionError
RecursionLimit == 3
\* the operator types 1 .. MaxTokens names separated by commas
MaxTokens == 2

ResolverKinds == {"country", "district", "port"}

\* rows of ../resources/country.csv and ../resources/district_port.csv
CountryTable ==
    << [Name |-> "Canada", Code |-> "1220"],
       [Name |-> "Mexico", Code |-> "2010"] >>
DistrictPortTable ==
    << [Name |-> "Seattle", District |-> "30", Port |-> "3001"],
       [Name |-> "Tacoma", District |-> "30", Port |-> "3002"],
       [Name |-> "Laredo", District |-> "23", Port |-> "2304"] >>

\* the rows of the file a resolver reads, each with the code it takes
CodeRows(kind) ==
    IF kind = "country"
    THEN [k \in 1 .. Len(CountryTable) |->
            [Name |-> CountryTable[k].Name, Code |-> CountryTable[k].Code]]
    ELSE [k \in 1 .. Len(DistrictPortTable) |->
            [Name |-> DistrictPortTable[k].Name,
             Code |-> IF kind = "district" THEN DistrictPortTable[k].District
                      ELSE DistrictPortTable[k].Port]]

\* df[column].values
CodeValues(kind) == {CodeRows(kind)[k].Code : k \in 1 .. Len(CodeRows(kind))}

\* Name.str.contains(token, case=False) for the tokens the operator types
NameContains ==
    { <<"Canada", "canada">>, <<"Mexico", "mexico">>,
      <<"Canada", "c">>, <<"Mexico", "c">>,
      <<"Tacoma", "tacoma">>,
      <<"Seattle", "a">>, <<"Tacoma", "a">>, <<"Laredo", "a">> }

\* the names the operator can type; "atlantis" is in no row of either file
TokensOf(kind) ==
    IF kind = "country" THEN {"canada", "c", "atlantis"}
    ELSE {"tacoma", "a", "atlantis"}

TextsOf(kind) ==
    UNION {[1 .. n -> TokensOf(kind)] : n \in 1 .. MaxTokens}

\* the answers to the override prompt, as the stripped codes of use.split(',');
\* <<>> is the Enter key
Enter == <<>>
UsesOf(kind) ==
    IF kind = "country" THEN {Enter, <<"1220">>, <<"1220", "9999">>}
    ELSE IF kind = "district" THEN {Enter, <<"23">>, <<"23", "99">>}
    ELSE {Enter, <<"2304">>, <<"2304", "9999">>}

\* the codes of the rows whose Name contains the token, in file order
Matches(kind, token) ==
    LET rows == SelectSeq(CodeRows(kind),
                          LAMBDA row : <<row.Name, token>> \in NameContains)
    IN  [k \in 1 .. Len(rows) |-> rows[k].Code]

\* list(set(codes)): the distinct codes in an order Python does not fix
Dedups(codes) ==
    LET S == {codes[k] : k \in 1 .. Len(codes)}
    IN  {q \in [1 .. Cardinality(S) -> S] : {q[k] : k \in 1 .. Len(q)} = S}

\* what the function returns on Enter: the codes collected (country), or
\* their distinct values (district, port)
AcceptedLists(kind, codes) ==
    IF kind = "country" THEN {codes} ELSE Dedups(codes)

\* a new call: country_list, the loop position, country_code
Frame(list) ==
    [list |-> list, i |-> 1, code |-> List(<<>>), phase |-> "match",
     ov |-> <<>>, oi |-> 0]

Top == rstack[Len(rstack)]
SetTop(f) == [rstack EXCEPT ![Len(rstack)] = f]

\* the running call calls the function again on arg and waits in phase
\* `waiting`; past the recursion limit the call raises RecursionError, which
\* the `except Exception` of the running call turns into `return None`
CallAgain(waiting, arg) ==
    IF Len(rstack) < RecursionLimit
    THEN rstack' = Append(SetTop([Top EXCEPT !.phase = waiting]), Frame(arg))
    ELSE rstack' = SetTop([Top EXCEPT !.phase = "return", !.code = NoneList])

\* get_user_defined_parameters calls a resolver with the text typed
ResolverCall ==
    /\ rpc = "idle"
    /\ \E kind \in ResolverKinds :
          \E text \in TextsOf(kind) :
              /\ rkind' = kind
              /\ rtext' = text
              /\ rstack' = <<Frame(text)>>
    /\ rpc' = "running"
    /\ UNCHANGED <<rresult, rmissed>>
    /\ UNCHANGED nonrvars

\* one iteration of `for country in country_list` whose token matches rows
MatchToken ==
    /\ rpc = "running"
    /\ Top.phase = "match"
    /\ LET m == Matches(rkind, Top.list[Top.i])
       IN  /\ m # <<>>
           /\ rstack' = SetTop([Top EXCEPT
                  !.code = List(Top.code.v \o m),
                  !.i = Top.i + 1,
                  !.phase = IF Top.i + 1 > Len(Top.list) THEN "ask"
                            ELSE "match"])
    /\ UNCHANGED <<rpc, rkind, rtext, rresult, rmissed>>
    /\ UNCHANGED nonrvars

\* one iteration whose token matches no row: the function prints the miss
\* and calls itself with `country`, which the loop has bound to the token
MissToken ==
    /\ rpc = "running"
    /\ Top.phase = "match"
    /\ Matches(rkind, Top.list[Top.i]) = <<>>
    /\ rmissed' = rmissed \cup {Top.list[Top.i]}
    /\ CallAgain("await_miss", <<Top.list[Top.i]>>)
    /\ UNCHANGED <<rpc, rkind, rtext, rresult>>
    /\ UNCHANGED nonrvars

\* the override prompt: Enter accepts the codes listed, anything else
\* replaces them by the codes typed, which are then looked up one by one
Ask ==
    /\ rpc = "running"
    /\ Top.phase = "ask"
    /\ \E use \in UsesOf(rkind) :
          IF use = Enter
          THEN \E q \in AcceptedLists(rkind, Top.code.v) :
                  rstack' = SetTop([Top EXCEPT !.code = List(q),
                                               !.phase = "return"])
          ELSE rstack' = SetTop([Top EXCEPT !.code = List(use), !.ov = use,
                                            !.oi = 1, !.phase = "validate"])
    /\ UNCHANGED <<rpc, rkind, rtext, rresult, rmissed>>
    /\ UNCHANGED nonrvars

\* ValidateCode without the lookup in the code column: every code typed
\* passes
ValidateCode_noLookup ==
    /\ rpc = "running"
    /\ Top.phase = "validate"
    /\ Top.oi <= Len(Top.ov)
    /\ rstack' = SetTop([Top EXCEPT !.oi = Top.oi + 1])
    /\ UNCHANGED <<rpc, rkind, rtext, rresult, rmissed>>
    /\ UNCHANGED nonrvars

\* one iteration of `for code in country_code` over the codes typed: a code
\* missing from the code column makes the function call itself with
\* `country`, by now the last token of country_list
ValidateCode ==
    /\ rpc = "running"
    /\ Top.phase = "validate"
    /\ Top.oi <= Len(Top.ov)
    /\ IF Top.ov[Top.oi] \in CodeValues(rkind)
       THEN rstack' = SetTop([Top EXCEPT !.oi = Top.oi + 1])
       ELSE CallAgain("await_invalid", <<Top.list[Len(Top.list)]>>)
    /\ UNCHANGED <<rpc, rkind, rtext, rresult, rmissed>>
    /\ UNCHANGED nonrvars

\* the end of the loop over the codes typed
ValidateEnd ==
    /\ rpc = "running"
    /\ Top.phase = "validate"
    /\ Top.oi > Len(Top.ov)
    /\ rstack' = SetTop([Top EXCEPT !.phase = "return"])
    /\ UNCHANGED <<rpc, rkind, rtext, rresult, rmissed>>
    /\ UNCHANGED nonrvars

\* `return country_code`: to get_user_defined_parameters, or to the call
\* that waits: after a miss it returns the value at once, in the loop over
\* the codes typed it binds country_code to the value and goes on
ResolverReturn ==
    /\ rpc = "running"
    /\ Top.phase = "return"
    /\ IF Len(rstack) = 1
       THEN /\ rresult' = Top.code
            /\ rstack' = <<>>
            /\ rpc' = "returned"
       ELSE LET caller == rstack[Len(rstack) - 1]
                resumed ==
                    IF caller.phase = "await_miss"
                    THEN [caller EXCEPT !.code = Top.code, !.phase = "return"]
                    ELSE [caller EXCEPT !.code = Top.code,
                                        !.oi = caller.oi + 1,
                                        !.phase = "validate"]
            IN  /\ rstack' = Append(SubSeq(rstack, 1, Len(rstack) - 2), resumed)
                /\ UNCHANGED <<rresult, rpc>>
    /\ UNCHANGED <<rkind, rtext, rmissed>>
    /\ UNCHANGED nonrvars

ResolveNext ==
    \/ ResolverCall
    \/ MatchToken
    \/ MissToken
    \/ Ask
    \/ ValidateCode
    \/ ValidateEnd
    \/ ResolverReturn

SpecResolve == Init /\ [][ResolveNext]_vars

\* the tokens of the text typed that match rows
MatchedTokens == {t \in {rtext[k] : k \in 1 .. Len(rtext)} : Matches(rkind, t) # <<>>}

(* C13: a token that matches no row is not skipped silently: the call does *)
(* not return None, the dimension left unfiltered, after a miss; it        *)
(* returns codes once the operator has typed text that matches.            *)
C13_MissNotSkipped ==
    (rpc = "returned" /\ rmissed # {}) => ~rresult.isNone

(* C14: after a miss the function starts again over the whole text the     *)
(* operator typed, not over the token that missed, and the codes it        *)
(* returns in the end include the matches of every token of that text.     *)
C14_RestartWholeInput ==
    /\ \A k \in 2 .. Len(rstack) :
          rstack[k - 1].phase = "await_miss" => rstack[k].list = rtext
    /\ (rpc = "returned" /\ rmissed # {}) =>
          /\ ~rresult.isNone
          /\ \A t \in MatchedTokens :
                \A j \in 1 .. Len(Matches(rkind, t)) :
                    Matches(rkind, t)[j] \in Members(rresult.v)

----------------------------------------------------------------------------
(* commodity_selection_codes(), HS_codes_input() and                       *)
(* validate_code_format().  A code the operator types is the sequence of   *)
(* its characters by class, which is all the two patterns tell apart:      *)
(* "d" a digit, "*" the wildcard, "q" the letter q, "x" any other          *)
(* character.                                                              *)

\* the operator types 1 .. MaxCodes codes separated by commas
MaxCodes == 2

\* d^n: n digits
RECURSIVE Digits(_)
Digits(n) == IF n = 0 THEN <<>> ELSE <<"d">> \o Digits(n - 1)

\* the number of digits a code starts with
RECURSIVE LeadingDigits(_)
LeadingDigits(code) ==
    IF code # <<>> /\ Head(code) = "d" THEN 1 + LeadingDigits(Tail(code))
    ELSE 0

\* re.match of ^(\d{a}|\d{b}|...)\*?$ for the lengths in ns: the whole code
\* is that many digits and at most one '*'
MatchesDigitsStar(code, ns) ==
    \E n \in ns : code = Digits(n) \/ code = Digits(n) \o <<"*">>

\* hs_pattern.match(code): ^(\d{2}|\d{4}|\d{6})\*?$ or, from the start of the
\* code, \d{10}$
hs_pattern(code) ==
    \/ MatchesDigitsStar(code, {2, 4, 6})
    \/ code = Digits(10)

\* port_pattern.match(code): ^(\d{2}|\d{4})\*?$ or, from the start of the
\* code, \d{6} with nothing said about what follows
port_pattern(code) ==
    \/ MatchesDigitsStar(code, {2, 4})
    \/ LeadingDigits(code) >= 6

validate_code_format(codes, ep) ==
    IF ep = "hs" THEN \A k \in 1 .. Len(codes) : hs_pattern(codes[k])
    ELSE \A k \in 1 .. Len(codes) : port_pattern(codes[k])

\* the codes the operator types: well formed ones, and ones with a digit
\* missing, a character too many, or the letter q alone
TypedCodes ==
    { Digits(2), Digits(4) \o <<"*">>, Digits(6), Digits(10),
      Digits(3), Digits(7), Digits(6) \o <<"*", "*">>, <<"q">>, <<>> }

\* input(...).split(","): a list is never empty
TypedLists == UNION {[1 .. n -> TypedCodes] : n \in 1 .. MaxCodes}

\* what commodity_codes_search returns: the codes found or typed, unchecked
SearchResults == {<<>>, <<Digits(10)>>, <<Digits(4) \o <<"*">>, Digits(3)>>}

YesNo == {"yes", "no"}

\* get_user_defined_parameters calls commodity_selection_codes for a commodity
CommodityCall ==
    /\ cpc = "idle"
    /\ \E ep \in EndpointKinds : cendpoint' = ep
    /\ cpc' = "have_codes"
    /\ UNCHANGED <<ccode_list, cerror, canswers>>
    /\ UNCHANGED noncvars

\* "Do you have the HS codes ...?": yes calls HS_codes_input(endpoint)
AnswerHaveCodes ==
    /\ cpc = "have_codes"
    /\ \E a \in YesNo :
          /\ canswers' = Append(canswers, a)
          /\ cpc' = IF a = "yes" THEN "hs_input" ELSE "search"
    /\ UNCHANGED <<cendpoint, ccode_list, cerror>>
    /\ UNCHANGED noncvars

\* "Would you like to search the local files ...?": yes returns what
\* commodity_codes_search returns
AnswerSearch ==
    /\ cpc = "search"
    /\ \E a \in YesNo :
          /\ canswers' = Append(canswers, a)
          /\ IF a = "yes"
             THEN /\ \E found \in SearchResults : ccode_list' = List(found)
                  /\ cpc' = "returned"
             ELSE /\ ccode_list' = ccode_list
                  /\ cpc' = "enter_now"
    /\ UNCHANGED <<cendpoint, cerror>>
    /\ UNCHANGED noncvars

\* "Would you like to enter the HS codes now?": yes calls HS_codes_input with
\* four arguments, and HS_codes_input takes one: TypeError, which nothing
\* up to main() catches
AnswerEnterNow ==
    /\ cpc = "enter_now"
    /\ \E a \in YesNo :
          /\ canswers' = Append(canswers, a)
          /\ IF a = "yes"
             THEN /\ cpc' = "crashed"
                  /\ cerror' = "TypeError"
             ELSE /\ cpc' = "quit_or_continue"
                  /\ cerror' = cerror
    /\ UNCHANGED <<cendpoint, ccode_list>>
    /\ UNCHANGED noncvars

\* "... quit the program or continue without specifying a commodity?"
AnswerQuitOrContinue ==
    /\ cpc = "quit_or_continue"
    /\ \E a \in {"quit", "continue"} :
          /\ canswers' = Append(canswers, a)
          /\ cpc' = IF a = "quit" THEN "exited" ELSE "returned"
    /\ ccode_list' = NoneList
    /\ UNCHANGED <<cendpoint, cerror>>
    /\ UNCHANGED noncvars

\* HS_codes_input: the first prompt for the codes
HSCodesInput ==
    /\ cpc = "hs_input"
    /\ \E typed \in TypedLists : ccode_list' = List(typed)
    /\ cpc' = "hs_check"
    /\ UNCHANGED <<cendpoint, cerror, canswers>>
    /\ UNCHANGED noncvars

\* the body of `while not validate_code_format(code_list, endpoint)`: the
\* codes are asked again; `code_list == 'q'` compares the list split() made
\* with a str and is False whatever was typed
HSCodesRePrompt ==
    /\ cpc = "hs_check"
    /\ ~validate_code_format(ccode_list.v, cendpoint)
    /\ \E typed \in TypedLists : ccode_list' = List(typed)
    /\ UNCHANGED <<cpc, cendpoint, cerror, canswers>>
    /\ UNCHANGED noncvars

\* `return code_list` once the loop condition is false
HSCodesReturn ==
    /\ cpc = "hs_check"
    /\ validate_code_format(ccode_list.v, cendpoint)
    /\ cpc' = "returned"
    /\ UNCHANGED <<cendpoint, ccode_list, cerror, canswers>>
    /\ UNCHANGED noncvars

CommodityNext ==
    \/ CommodityCall
    \/ AnswerHaveCodes
    \/ AnswerSearch
    \/ AnswerEnterNow
    \/ AnswerQuitOrContinue
    \/ HSCodesInput
    \/ HSCodesRePrompt
    \/ HSCodesReturn

SpecCommodity == Init /\ [][CommodityNext]_vars

\* the operator has answered no to both of the first two questions
DeclinedBoth ==
    Len(canswers) >= 2 /\ canswers[1] = "no" /\ canswers[2] = "no"

(* C15: when the operator has declined both having HS codes and searching  *)
(* the local files, commodity selection ends by the program's exit (quit), *)
(* by returning None (continue), or by returning a code list of the        *)
(* accepted format (enter the codes now), and on no path by an error that  *)
(* nothing handles.                                                        *)
C15_DeclinedBothEnds ==
    DeclinedBoth =>
        /\ cpc # "crashed"
        /\ cerror = "none"
        /\ (cpc = "returned" /\ ~ccode_list.isNone) =>
              validate_code_format(ccode_list.v, cendpoint)
        /\ (Len(canswers) >= 3 /\ canswers[3] = "yes") =>
              cpc \in {"hs_input", "hs_check", "returned"}

----------------------------------------------------------------------------
(* clean_data() on the cells of a table.  A DataFrame read by              *)
(* pd.read_csv(dtype=str) is a record [cols, rows]: cols the column names  *)
(* in order, rows the rows in order, each a function from the column names *)
(* to cells.  A cell is a str or NaN; read_csv reads the text 'nan' as     *)
(* NaN, so no str cell is spelled that way.                                *)

NaN == "nan"

ColumnSet(t) == Members(t.cols)

\* the rows at the positions in I, in their order, from position k on
RECURSIVE RowsAt(_, _, _)
RowsAt(rows, I, k) ==
    IF k > Len(rows) THEN <<>>
    ELSE (IF k \in I THEN <<rows[k]>> ELSE <<>>) \o RowsAt(rows, I, k + 1)

\* data.loc[:, keep]: the columns in keep, every row cut down to them
SelectColumns(t, keep) ==
    [cols |-> SelectSeq(t.cols, LAMBDA c : c \in keep),
     rows |-> [i \in 1 .. Len(t.rows) |->
                 [c \in ColumnSet(t) \cap keep |-> t.rows[i][c]]]]

\* data.drop(columns=names, errors='ignore')
DropColumns(t, names) == SelectColumns(t, ColumnSet(t) \ names)

\* data.drop_duplicates(subset=subset, keep=keep): of the rows equal on the
\* subset, the first or the last stays
DropDuplicates(t, subset, keep) ==
    LET same(i, j) == \A c \in subset : t.rows[i][c] = t.rows[j][c]
        stays == {i \in 1 .. Len(t.rows) :
                    IF keep = "first"
                    THEN \A j \in 1 .. (i - 1) : ~same(i, j)
                    ELSE \A j \in (i + 1) .. Len(t.rows) : ~same(i, j)}
    IN  [cols |-> t.cols, rows |-> RowsAt(t.rows, stays, 1)]

\* data.replace(old, np.nan): the cells equal to old
Replace(t, old) ==
    [cols |-> t.cols,
     rows |-> [i \in 1 .. Len(t.rows) |->
                 [c \in ColumnSet(t) |->
                     IF t.rows[i][c] = old THEN NaN ELSE t.rows[i][c]]]]

\* data.dropna(axis=1, how='all'): a column stays if some cell of it is not
\* NaN
DropAllNaNColumns(t) ==
    SelectColumns(t, {c \in ColumnSet(t) :
                        \E i \in 1 .. Len(t.rows) : t.rows[i][c] # NaN})

\* data.loc[:, (data != '0').any(axis=0)]: a column stays if some cell of it
\* is not '0'
DropAllZeroColumns(t) ==
    SelectColumns(t, {c \in ColumnSet(t) :
                        \E i \in 1 .. Len(t.rows) : t.rows[i][c] # "0"})

\* data.dropna(subset=subset): the rows without NaN in the subset
DropNaRows(t, subset) ==
    [cols |-> t.cols,
     rows |-> SelectSeq(t.rows, LAMBDA r : \A c \in subset : r[c] # NaN)]

\* x.split('-')[0] and x.split('-')[1] of the time cells of the model
SplitYear(time) ==
    CASE time = "2020-01" -> "2020"
      [] time = "2020-02" -> "2020"
      [] time = "2021-01" -> "2021"
SplitMonth(time) ==
    CASE time = "2020-01" -> "01"
      [] time = "2020-02" -> "02"
      [] time = "2021-01" -> "01"

\* data['YEAR'] = ..., data['MONTH'] = ..., data.drop(columns=['time'])
SplitTime(t) ==
    LET kept == ColumnSet(t) \ {"time"}
    IN  [cols |-> SelectSeq(t.cols, LAMBDA c : c # "time"
                                               /\ c \notin {"YEAR", "MONTH"})
                  \o <<"YEAR", "MONTH">>,
         rows |-> [i \in 1 .. Len(t.rows) |->
                     [c \in kept \cup {"YEAR", "MONTH"} |->
                         IF c = "YEAR" THEN SplitYear(t.rows[i]["time"])
                         ELSE IF c = "MONTH" THEN SplitMonth(t.rows[i]["time"])
                         ELSE t.rows[i][c]]]]

\* the strs of the columns sort_values compares, in Python's order of str
StrOrder ==
    << "01", "02", "2020", "2021", "8501", "850110", "CALIFORNIA", "CANADA",
       "SEATTLE, WA", "TOTAL FOR ALL COUNTRIES", "TOTAL FOR ALL DISTRICTS",
       "TOTAL FOR ALL PORTS" >>

\* the place of a cell in that order; NaN comes last (na_position='last')
Rank(v) ==
    IF \E k \in 1 .. Len(StrOrder) : StrOrder[k] = v
    THEN CHOOSE k \in 1 .. Len(StrOrder) : StrOrder[k] = v
    ELSE Len(StrOrder) + 1

\* row a comes before row b by the columns of `by`, the first one first
RECURSIVE Before(_, _, _)
Before(a, b, by) ==
    IF by = <<>> THEN FALSE
    ELSE \/ Rank(a[Head(by)]) < Rank(b[Head(by)])
         \/ /\ Rank(a[Head(by)]) = Rank(b[Head(by)])
            /\ Before(a, b, Tail(by))

\* a stable insertion of row r into sorted rows
RECURSIVE InsertRow(_, _, _)
InsertRow(r, sorted, by) ==
    IF sorted = <<>> THEN <<r>>
    ELSE IF Before(r, Head(sorted), by) THEN <<r>> \o sorted
    ELSE <<Head(sorted)>> \o InsertRow(r, Tail(sorted), by)

RECURSIVE SortRows(_, _)
SortRows(rows, by) ==
    IF rows = <<>> THEN <<>>
    ELSE InsertRow(rows[Len(rows)], SortRows(SubSeq(rows, 1, Len(rows) - 1), by),
                   by)

\* data.sort_values(by=by)
SortValues(t, by) == [cols |-> t.cols, rows |-> SortRows(t.rows, by)]

\* the columns clean_data drops first, when they are there
EchoColumns ==
    {"I_COMMODITY.1", "E_COMMODITY.1", "CTY_CODE.1", "DISTRICT.1", "STATE.1",
     "COMM_LVL", "SUMMARY_LVL"}

\* by trade type: the subset of dropna, the subset of the keyed
\* drop_duplicates, the columns of sort_values
dropna_subset(tt) ==
    IF tt = "imp_hs" THEN {"CTY_CODE", "DISTRICT", "RP"}
    ELSE IF tt = "imp_port" THEN {"PORT", "CTY_CODE"}
    ELSE IF tt = "exp_hs" THEN {"CTY_CODE", "DISTRICT", "DF"}
    ELSE IF tt = "exp_port" THEN {"PORT", "CTY_CODE"}
    ELSE {"CTY_CODE", "STATE"}

dedup_subset(tt) ==
    IF tt = "imp_hs" THEN {"I_COMMODITY", "CTY_CODE", "DISTRICT", "YEAR"}
    ELSE IF tt = "imp_port" THEN {"I_COMMODITY", "CTY_CODE", "PORT", "YEAR"}
    ELSE IF tt = "exp_hs" THEN {"E_COMMODITY", "CTY_CODE", "DISTRICT", "YEAR"}
    ELSE IF tt = "exp_port" THEN {"E_COMMODITY", "CTY_CODE", "PORT", "YEAR"}
    ELSE IF tt = "imp_st" THEN {"I_COMMODITY", "CTY_CODE", "STATE", "YEAR"}
    ELSE {"E_COMMODITY", "CTY_CODE", "STATE", "YEAR"}

sort_by(tt) ==
    IF tt = "imp_hs"
        THEN <<"YEAR", "MONTH", "I_COMMODITY", "DIST_NAME", "CTY_NAME">>
    ELSE IF tt = "imp_port"
        THEN <<"YEAR", "MONTH", "I_COMMODITY", "PORT_NAME", "CTY_NAME">>
    ELSE IF tt = "exp_hs"
        THEN <<"YEAR", "MONTH", "E_COMMODITY", "DIST_NAME", "CTY_NAME">>
    ELSE IF tt = "exp_port"
        THEN <<"YEAR", "MONTH", "E_COMMODITY", "PORT_NAME", "CTY_NAME">>
    ELSE IF tt = "imp_st" THEN <<"YEAR", "MONTH", "I_COMMODITY", "CTY_NAME">>
    ELSE <<"YEAR", "MONTH", "E_COMMODITY", "CTY_NAME">>

\* the outcome of a run of steps: the table, or the exception raised
Done(t) == [error |-> "none", t |-> t]
Raised(e) == [error |-> e, t |-> [cols |-> <<>>, rows |-> <<>>]]

\* the steps before the trade type is looked at: the echo columns, exact
\* duplicate rows, the sentinels '-' and '00', the columns all NaN or all
\* '0', the rows equal but for time, and time split into YEAR and MONTH;
\* data['time'] raises KeyError when the column is gone
CommonSteps(table) ==
    LET d1 == DropColumns(table, EchoColumns)
        d2 == DropDuplicates(d1, ColumnSet(d1), "first")
        d3 == Replace(Replace(d2, "-"), "00")
        d4 == DropAllNaNColumns(d3)
        d5 == DropAllZeroColumns(d4)
        d6 == DropDuplicates(d5, ColumnSet(d5) \ {"time"}, "first")
    IN  IF "time" \notin ColumnSet(d6) THEN Raised("KeyError")
        ELSE Done(SplitTime(d6))

\* which of the rows equal on the key the keyed drop_duplicates keeps
KeyedKeep_first == "first"
KeyedKeep == "last"

\* the steps of the trade type: dropna, the keyed drop_duplicates,
\* sort_values and reset_index; each raises KeyError on a column that is
\* not in the table
TagSteps(t, tt) ==
    IF ~(dropna_subset(tt) \subseteq ColumnSet(t)) THEN Raised("KeyError")
    ELSE IF ~(dedup_subset(tt) \subseteq ColumnSet(t)) THEN Raised("KeyError")
    ELSE IF ~(Members(sort_by(tt)) \subseteq ColumnSet(t))
        THEN Raised("KeyError")
    ELSE Done(SortValues(DropDuplicates(DropNaRows(t, dropna_subset(tt)),
                                        dedup_subset(tt), KeyedKeep),
                         sort_by(tt)))

\* comm_col of clean_data
comm_col(t) ==
    IF "I_COMMODITY" \in ColumnSet(t) THEN "I_COMMODITY" ELSE "E_COMMODITY"

\* data[comm_col].str.len().max(): NaN cells have no length; 0 stands for
\* the maximum of no length at all
longest_code(t) ==
    LET lens == {Len(t.rows[i][comm_col(t)]) :
                   i \in {j \in 1 .. Len(t.rows) :
                            t.rows[j][comm_col(t)] # NaN}}
    IN  IF lens = {} THEN 0 ELSE CHOOSE n \in lens : \A m \in lens : m <= n

\* GranularityFilter keeping the rows of the shortest code
GranularityFilter_shortest(t) ==
    LET lens == {Len(t.rows[i][comm_col(t)]) : i \in 1 .. Len(t.rows)}
    IN  [cols |-> t.cols,
         rows |-> SelectSeq(t.rows, LAMBDA r :
                     \A m \in lens : Len(r[comm_col(t)]) <= m)]

\* data[data[comm_col].str.len() == longest_code]
GranularityFilter(t) ==
    [cols |-> t.cols,
     rows |-> SelectSeq(t.rows, LAMBDA r :
                 /\ r[comm_col(t)] # NaN
                 /\ Len(r[comm_col(t)]) = longest_code(t))]

\* clean_data(data, trade_type) on a table: the pair (data, raw_data), or
\* the exception a step raised
CleanTable(table, tt) ==
    LET common == CommonSteps(table)
        tagged == IF common.error = "none" THEN TagSteps(common.t, tt)
                  ELSE common
    IN  IF tagged.error # "none"
        THEN [error |-> tagged.error, cleaned |-> tagged.t, raw |-> table]
        ELSE IF comm_col(tagged.t) \notin ColumnSet(tagged.t)
        THEN [error |-> "KeyError", cleaned |-> tagged.t, raw |-> table]
        ELSE [error |-> "none", cleaned |-> GranularityFilter(tagged.t),
              raw |-> table]

----------------------------------------------------------------------------
(* The tables clean_data is called on: what make_call builds from the      *)
(* responses of one run.  The header is the run's 'get' fields, then       *)
(* time, SUMMARY_LVL and the fields the run filtered by, which the API     *)
(* repeats and read_csv renames with the suffix '.1'.                      *)

\* a table has 1 .. MaxTableRows rows
MaxTableRows == 2

TradeTypes == {determine_trade_type(a[1], a[2]) : a \in Pairs}

DirectionOf(tt) == IF tt \in {"imp_hs", "imp_port", "imp_st"} THEN "imports"
                   ELSE "exports"
KindOf(tt) == IF tt \in {"imp_hs", "exp_hs"} THEN "hs"
              ELSE IF tt \in {"imp_port", "exp_port"} THEN "port" ELSE "state"

\* the fields of the 'get' lists whose cells the model tells apart
ModelledFields ==
    {"I_COMMODITY", "E_COMMODITY", "CTY_CODE", "CTY_NAME", "DISTRICT",
     "DIST_NAME", "PORT", "PORT_NAME", "STATE", "RP", "DF", "GEN_VAL_YR",
     "ALL_VAL_YR"}

\* the header after a run that filtered by commodity, country and
\* district, port or state
EchoedHeader(tt) ==
    SelectSeq(FieldList(tt), LAMBDA c : c \in ModelledFields)
    \o <<"time", "SUMMARY_LVL", CommodityField(DirectionOf(tt)) \o ".1",
         "CTY_CODE.1", GeographyField(KindOf(tt)) \o ".1">>

\* the header of four columns: commodity, CTY_CODE, district/port/state, time
MinimalHeader(tt) ==
    <<CommodityField(DirectionOf(tt)), "CTY_CODE", GeographyField(KindOf(tt)),
      "time">>

HeaderOf(tt, shape) ==
    IF shape = "echoed" THEN EchoedHeader(tt) ELSE MinimalHeader(tt)

\* what varies from row to row: the commodity code, which cell if any holds
\* a sentinel or is empty, the month, and a value ('0' only in rows without
\* a sentinel or empty cell)
RowChoices ==
    {ch \in [com : {"8501", "850110"},
             nulls : {"none", "cty", "geo", "third"},
             time : {"2020-01", "2020-02", "2021-01"}, val : {"5", "0"}] :
        ch.nulls # "none" => ch.val = "5"}

\* the cell of column c in the row of choice ch
CellOf(c, ch) ==
    IF c \in {"I_COMMODITY", "E_COMMODITY", "I_COMMODITY.1", "E_COMMODITY.1"}
        THEN ch.com
    ELSE IF c \in {"CTY_CODE", "CTY_CODE.1"}
        THEN (IF ch.nulls = "cty" THEN "-" ELSE "1220")
    ELSE IF c = "CTY_NAME"
        THEN (IF ch.nulls = "cty" THEN "TOTAL FOR ALL COUNTRIES" ELSE "CANADA")
    ELSE IF c \in {"DISTRICT", "DISTRICT.1"}
        THEN (IF ch.nulls = "geo" THEN "00" ELSE "30")
    ELSE IF c = "DIST_NAME"
        THEN (IF ch.nulls = "geo" THEN "TOTAL FOR ALL DISTRICTS"
              ELSE "SEATTLE, WA")
    ELSE IF c \in {"PORT", "PORT.1"}
        THEN (IF ch.nulls = "geo" THEN "-" ELSE "3001")
    ELSE IF c = "PORT_NAME"
        THEN (IF ch.nulls = "geo" THEN "TOTAL FOR ALL PORTS" ELSE "SEATTLE, WA")
    ELSE IF c \in {"STATE", "STATE.1"}
        THEN (IF ch.nulls = "geo" THEN "-" ELSE "CA")
    ELSE IF c \in {"RP", "DF"}
        THEN (IF ch.nulls = "third" THEN NaN ELSE "1")
    ELSE IF c \in {"GEN_VAL_YR", "ALL_VAL_YR"} THEN ch.val
    ELSE IF c = "time" THEN ch.time
    ELSE "DET"

\* the rows a table of a header can hold
RowPool(header) ==
    {[c \in Members(header) |-> CellOf(c, ch)] : ch \in RowChoices}

\* main() calls clean_data(data, trade_type) on the table make_call returned
CleanDataCall ==
    /\ tpc = "idle"
    /\ \E tt \in TradeTypes, shape \in {"echoed", "minimal"} :
          \E n \in 1 .. MaxTableRows :
              \E rows \in [1 .. n -> RowPool(HeaderOf(tt, shape))] :
                  /\ ttag' = tt
                  /\ ttable' = [cols |-> HeaderOf(tt, shape), rows |-> rows]
    /\ tpc' = "called"
    /\ UNCHANGED tresult
    /\ UNCHANGED nontvars

\* clean_data runs and returns, or raises
CleanDataReturn ==
    /\ tpc = "called"
    /\ tresult' = CleanTable(ttable, ttag)
    /\ tpc' = "returned"
    /\ UNCHANGED <<ttag, ttable>>
    /\ UNCHANGED nontvars

CleanNext ==
    \/ CleanDataCall
    \/ CleanDataReturn

SpecClean == Init /\ [][CleanNext]_vars

----------------------------------------------------------------------------
(* Vocabulary of the properties of clean_data *)

\* clean_data returned a pair
Cleaned == tpc = "returned" /\ tresult.error = "none"

\* the key of a row of a cleaned table: commodity code, CTY_CODE,
\* district/port/state, YEAR
KeyOf(r, tt) ==
    <<r[CommodityField(DirectionOf(tt))], r["CTY_CODE"],
      r[GeographyField(KindOf(tt))], r["YEAR"]>>

\* the cell of an input row as cleaning normalizes it
Normal(v) == IF v \in {"-", "00"} THEN NaN ELSE v

\* the key of an input row
InputKeyOf(r, tt) ==
    <<Normal(r[CommodityField(DirectionOf(tt))]), Normal(r["CTY_CODE"]),
      Normal(r[GeographyField(KindOf(tt))]), SplitYear(r["time"])>>

\* an input row as it would show in a table of the columns cols
InputRowAs(r, cols) ==
    [c \in cols |-> IF c = "YEAR" THEN SplitYear(r["time"])
                    ELSE IF c = "MONTH" THEN SplitMonth(r["time"])
                    ELSE Normal(r[c])]

\* the required fields of a trade type
RequiredOf(tt) ==
    IF tt = "imp_hs" THEN {"CTY_CODE", "DISTRICT", "RP"}
    ELSE IF tt = "exp_hs" THEN {"CTY_CODE", "DISTRICT", "DF"}
    ELSE IF KindOf(tt) = "port" THEN {"PORT", "CTY_CODE"}
    ELSE {"CTY_CODE", "STATE"}

\* every row has its required fields, and no two rows share a key
RequiredAndUnique(t, tt) ==
    /\ \A i \in 1 .. Len(t.rows) :
          \A c \in RequiredOf(tt) : c \in ColumnSet(t) /\ t.rows[i][c] # NaN
    /\ \A i, j \in 1 .. Len(t.rows) :
          i # j => KeyOf(t.rows[i], tt) # KeyOf(t.rows[j], tt)

\* the rows the keyed drop_duplicates is applied to: those left by the
\* steps before it
BeforeKeyedDedup ==
    DropNaRows(CommonSteps(ttable).t, dropna_subset(ttag)).rows

\* the rows the granularity filter is applied to
BeforeGranularity == TagSteps(CommonSteps(ttable).t, ttag).t.rows

\* the last of the rows of a sequence with the key k
LastWithKey(rows, k, tt) ==
    rows[CHOOSE i \in 1 .. Len(rows) :
            /\ KeyOf(rows[i], tt) = k
            /\ \A j \in (i + 1) .. Len(rows) : KeyOf(rows[j], tt) # k]

\* an input row has all the required fields of the trade type
HasRequired(r, tt) ==
    \A c \in RequiredOf(tt) : c \in DOMAIN r /\ Normal(r[c]) # NaN

(* C16 as stated: every row of the cleaned table has its required fields,  *)
(* no two rows share a key, and the row kept for a key is the last, in     *)
(* input order, of the input rows with that key (and with the required     *)
(* fields).                                                                *)
C16_LastOfInput ==
    Cleaned =>
        /\ RequiredAndUnique(tresult.cleaned, ttag)
        /\ \A i \in 1 .. Len(tresult.cleaned.rows) :
              LET r == tresult.cleaned.rows[i]
                  with == {k \in 1 .. Len(ttable.rows) :
                             /\ HasRequired(ttable.rows[k], ttag)
                             /\ InputKeyOf(ttable.rows[k], ttag) = KeyOf(r, ttag)}
                  last == CHOOSE k \in with : \A j \in with : j <= k
              IN  r = InputRowAs(ttable.rows[last], ColumnSet(tresult.cleaned))

(* C16 amended: every row of the cleaned table has its required fields, no *)
(* two rows share a key, and the row kept for a key is the last, in input  *)
(* order, of the rows with that key that the earlier steps left: those not *)
(* dropped as duplicates (exact, or equal but for time, where the first    *)
(* stays) and with all required fields.                                    *)
C16_RequiredUniqueLast ==
    Cleaned =>
        /\ RequiredAndUnique(tresult.cleaned, ttag)
        /\ LET before == BeforeKeyedDedup
           IN  \A i \in 1 .. Len(tresult.cleaned.rows) :
                  tresult.cleaned.rows[i] =
                      LastWithKey(before, KeyOf(tresult.cleaned.rows[i], ttag),
                                  ttag)

\* two rows with one key and different months reached the keyed dedup, and
\* the cleaned table holds the later one
C16_Witness ==
    /\ Cleaned
    /\ \E i, j \in 1 .. Len(BeforeKeyedDedup) :
          /\ i < j
          /\ KeyOf(BeforeKeyedDedup[i], ttag) = KeyOf(BeforeKeyedDedup[j], ttag)
          /\ BeforeKeyedDedup[i]["MONTH"] # BeforeKeyedDedup[j]["MONTH"]
          /\ \E k \in 1 .. Len(tresult.cleaned.rows) :
                tresult.cleaned.rows[k] = BeforeKeyedDedup[j]

(* C17: the rows of the cleaned table are exactly the rows left by the     *)
(* earlier steps whose commodity code has the greatest length found among  *)
(* those rows: all cleaned rows have codes of that one length, every row   *)
(* with a code of that length stays, every row with a shorter code goes.   *)
C17_Granularity ==
    Cleaned =>
        LET com == CommodityField(DirectionOf(ttag))
            left == BeforeGranularity
            longest(n) == /\ \E i \in 1 .. Len(left) : Len(left[i][com]) = n
                          /\ \A i \in 1 .. Len(left) : Len(left[i][com]) <= n
        IN  /\ \A i \in 1 .. Len(tresult.cleaned.rows) :
                  longest(Len(tresult.cleaned.rows[i][com]))
            /\ \A i \in 1 .. Len(left) :
                  longest(Len(left[i][com]))
                      <=> left[i] \in Members(tresult.cleaned.rows)
            /\ tresult.cleaned.rows =
                  SelectSeq(left, LAMBDA r : r \in Members(tresult.cleaned.rows))

\* rows with codes of two lengths were left by the earlier steps, and the
\* cleaned table holds a row of the longer code and none of the shorter
C17_Witness ==
    /\ Cleaned
    /\ \E i, j \in 1 .. Len(BeforeGranularity) :
          Len(BeforeGranularity[i][CommodityField(DirectionOf(ttag))])
              < Len(BeforeGranularity[j][CommodityField(DirectionOf(ttag))])
    /\ Len(tresult.cleaned.rows) >= 1
    /\ Len(tresult.cleaned.rows) < Len(BeforeGranularity)

(* C18: on trade type imp_hs and a table of the header I_COMMODITY,        *)
(* CTY_CODE, DISTRICT, time with one row, clean_data raises nothing: it    *)
(* returns an empty cleaned table when the row's CTY_CODE or DISTRICT is   *)
(* null ('-' and '00' included), and otherwise the row with YEAR and MONTH *)
(* in place of time.                                                       *)
C18_MinimalTable ==
    (/\ tpc = "returned"
     /\ ttag = "imp_hs"
     /\ ttable.cols = <<"I_COMMODITY", "CTY_CODE", "DISTRICT", "time">>
     /\ Len(ttable.rows) = 1) =>
        LET r == ttable.rows[1]
        IN  /\ tresult.error = "none"
            /\ IF Normal(r["CTY_CODE"]) = NaN \/ Normal(r["DISTRICT"]) = NaN
               THEN tresult.cleaned.rows = <<>>
               ELSE tresult.cleaned.rows =
                      << [I_COMMODITY |-> r["I_COMMODITY"],
                          CTY_CODE |-> r["CTY_CODE"],
                          DISTRICT |-> r["DISTRICT"],
                          YEAR |-> SplitYear(r["time"]),
                          MONTH |-> SplitMonth(r["time"])] >>

\* the steps of clean_data a cleaned table can be given again: the exact
\* duplicate drop, the sentinels, the columns all NaN or all '0', the
\* required-field dropna, the keyed dedup, the granularity filter
StableSteps(t, tt) ==
    LET d2 == DropDuplicates(t, ColumnSet(t), "first")
        d3 == Replace(Replace(d2, "-"), "00")
        d5 == DropAllZeroColumns(DropAllNaNColumns(d3))
    IN  IF ~((dropna_subset(tt) \cup dedup_subset(tt)) \subseteq ColumnSet(d5))
            \/ comm_col(d5) \notin ColumnSet(d5)
        THEN Raised("KeyError")
        ELSE Done(GranularityFilter(
                DropDuplicates(DropNaRows(d5, dropna_subset(tt)),
                               dedup_subset(tt), KeyedKeep)))

(* C19: the dedup and null-drop steps of cleaning, applied to an already   *)
(* cleaned table, return that table unchanged: same rows, same columns.    *)
C19_Idempotent ==
    Cleaned => StableSteps(tresult.cleaned, ttag) = Done(tresult.cleaned)

\* the names read_csv gives to repeated columns
SuffixedNames ==
    {c \o ".1" : c \in ModelledFields \cup {"time", "SUMMARY_LVL", "COMM_LVL"}}

(* C20: whatever the trade type and whatever the run filtered by, no       *)
(* column of the cleaned table has a name ending in '.1', and none is      *)
(* named COMM_LVL or SUMMARY_LVL.                                          *)
C20_NoEchoColumns ==
    Cleaned =>
        \A c \in ColumnSet(tresult.cleaned) :
            c \notin SuffixedNames \cup {"COMM_LVL", "SUMMARY_LVL"}

(* C21: next to the cleaned table clean_data returns a raw copy that holds *)
(* every row of the input table, unfiltered and in input order, with the   *)
(* time field split into the columns YEAR and MONTH.                       *)
C21_RawTimeSplit ==
    (tpc = "returned" /\ tresult.error = "none") =>
        /\ Len(tresult.raw.rows) = Len(ttable.rows)
        /\ ColumnSet(tresult.raw) =
              (ColumnSet(ttable) \ {"time"}) \cup {"YEAR", "MONTH"}
        /\ \A i \in 1 .. Len(ttable.rows) :
              /\ \A c \in ColumnSet(ttable) \ {"time"} :
                    tresult.raw.rows[i][c] = ttable.rows[i][c]
              /\ tresult.raw.rows[i]["YEAR"] = SplitYear(ttable.rows[i]["time"])
              /\ tresult.raw.rows[i]["MONTH"] =
                    SplitMonth(ttable.rows[i]["time"])

(* C22: after data was retrieved, the save step as main calls it raises    *)
(* nothing, on the cleaned and on the uncleaned path, and once it is done  *)
(* there is for every year of the table a _raw file under the directory    *)
(* save_directory returned, named with the descriptor, the trade-type tag  *)
(* and the year, that holds the rows of that year only.                    *)
C22_SavePerYear ==
    notice = "retrieved" =>
        /\ ~(pc = "crashed" /\ error = "TypeError")
        /\ pc = "done" =>
              \A i \in 1 .. Len(data.rows) :
                  \E f \in files :
                      /\ f.dir = save_dir
                      /\ f.tag = trade_type
                      /\ TruthyStr(commodity) => f.descriptor = commodity
                      /\ f.year = RowYear(data.rows[i])
                      /\ f.kind = "raw"
                      /\ f.rows = SelectSeq(data.rows, LAMBDA r :
                                     RowYear(r) = RowYear(data.rows[i]))

(* C23: a list of codes a resolver returns, to its caller or to a call of  *)
(* itself that waits, holds only codes of the reference file's code        *)
(* column, whatever the operator typed at the override prompts.            *)
C23_OnlyValidCodes ==
    /\ (rpc = "returned" /\ ~rresult.isNone) =>
          Members(rresult.v) \subseteq CodeValues(rkind)
    /\ \A k \in 1 .. Len(rstack) :
          (rstack[k].phase = "return" /\ ~rstack[k].code.isNone) =>
              Members(rstack[k].code.v) \subseteq CodeValues(rkind)

\* the first call is about to return codes after the operator typed a code
\* that is not in the code column
C23_Witness ==
    /\ rpc = "running"
    /\ Len(rstack) = 1
    /\ Top.phase = "return"
    /\ ~Top.code.isNone
    /\ Top.code.v # <<>>
    /\ \E k \in 1 .. Len(Top.ov) : Top.ov[k] \notin CodeValues(rkind)

\* a well formed code: 2, 4 or 6 digits and at most one '*' after them, or,
\* on the hs endpoint, 10 digits
WellFormed(code, ep) ==
    LET n == LeadingDigits(code)
    IN  \/ /\ n \in {2, 4, 6}
           /\ \/ Len(code) = n
              \/ Len(code) = n + 1 /\ code[n + 1] = "*"
        \/ ep = "hs" /\ n = 10 /\ Len(code) = 10

(* C24: validate_code_format accepts the list the operator typed if and    *)
(* only if every code of it is well formed for the endpoint; no code of    *)
(* another length or with characters after the digits or the wildcard is   *)
(* accepted.                                                               *)
C24_AcceptsIffWellFormed ==
    cpc = "hs_check" =>
        (validate_code_format(ccode_list.v, cendpoint)
            <=> \A k \in 1 .. Len(ccode_list.v) :
                    WellFormed(ccode_list.v[k], cendpoint))

(* C25: in HS_codes_input, when the operator types q at the prompt shown   *)
(* after a list of an incorrect format, the program terminates: the step   *)
(* that reads q there is the program's exit.                               *)
C25_QuitAtRePrompt ==
    [][(/\ cpc = "hs_check"
        /\ ~validate_code_format(ccode_list.v, cendpoint)
        /\ ccode_list'.v = << <<"q">> >>) => cpc' = "exited"]_vars
====
